---- MODULE Spec2Model ----
(***************************************************************************)
(* Background-page update coordinator (src/src/background/update.ts).      *)
(*                                                                         *)
(* One event loop runs the three message listeners of class Update.  A     *)
(* listener invocation is a process: it runs atomically from one           *)
(* suspension point (an await on storage, on the network, on the tag       *)
(* database or on the timer) to the next.  A promise that is already       *)
(* settled when it is awaited is resumed in a microtask of the same task,  *)
(* so it is not a point where another listener can run.                    *)
(*                                                                         *)
(* Operators on the program state take and return a "world" record w that  *)
(* holds every variable; an action is a guard plus Set(op(World, ...)).    *)
(***************************************************************************)
EXTENDS Integers, Sequences, FiniteSets, TLC

VARIABLES
    now,            \* the wall clock, new Date().getTime()
    installed,      \* browser.storage.local {sha, releaseLink} = tagDatabase.sha / releaseLink
    lastCheckData,  \* Update.lastCheckData.value
    downloadStatus, \* Update.downloadStatus.value
    loadLock,       \* Update.loadLock
    owner,          \* history: the invocation that set loadLock, 0 if none
    badge,          \* last arguments given to badgeLoading.set
    procs           \* the listener invocations

vars == <<now, installed, lastCheckData, downloadStatus, loadLock, owner, badge, procs>>

----------------------------------------------------------------------------
(* Bounds *)

NumProcs == 2       \* listener invocations in one run
MaxTicks == 2       \* clock advances in one run
TotalBytes == 2     \* event.total of the asset transfer

(* Program constants *)

RateLimitMs == 1000 * 60

Procs == 1..NumProcs
TickMs == RateLimitMs
ClockStart == 2 * RateLimitMs
MaxClock == ClockStart + MaxTicks * TickMs

----------------------------------------------------------------------------
(* Data *)

Null == [null |-> TRUE]

defaultStatus ==
    [run |-> FALSE, progress |-> 0, info |-> "", complete |-> FALSE, error |-> FALSE]

\* Texts of the status and of the errors ("..." is the source's literal).
InfoLoading == "loading"                  \* '加载中'
InfoUpdated == "update complete"          \* '更新完成'
InfoDownloaded == "download complete"     \* '下载完成'
MsgNoVersionInfo == "no version info"     \* Error('无法获取版本信息')
MsgNoDownloadUrl == "no download url"     \* Error('无法获取下载地址')
MsgUpdateFailed == "update failed"        \* '更新失败', used when err.message is empty
MsgDatabase == "database update failed"  \* the message tagDatabase.update fails with
NoMessage == ""                           \* an error value without a message

BundleName == "db.html.json.gz"
BundleUrl == "https://x/db.gz"

Html(v) == "https://x/releases/" \o v

AssetLists ==
    { << [name |-> "db.raw.json", browser_download_url |-> "https://x/raw"] >>,
      << [name |-> BundleName, browser_download_url |-> ""] >>,
      << [name |-> "db.raw.json", browser_download_url |-> "https://x/raw"],
         [name |-> BundleName, browser_download_url |-> BundleUrl] >> }

\* Bodies the release-metadata endpoint can answer with: the latest release is
\* v2 (v1 is installed at the start), with or without the bundle among its
\* assets, or the body is an error message of the API.
Responses ==
    { [target_commitish |-> "v2", html_url |-> Html("v2"), assets |-> a] :
          a \in AssetLists }
    \cup { [target_commitish |-> "v2", html_url |-> Html("v2")] }
    \cup { [message |-> "API rate limit exceeded"] }

NoLocals == [sha |-> "", releaseLink |-> ""]

initialCheckData ==
    [old |-> "", oldLink |-> "", new |-> "", newLink |-> "",
     timestamp |-> 0, githubRelease |-> Null]

idleProc ==
    [pc |-> "idle",         \* idle, cv_storage, cv_fetch, await_dl, db_update, sleep, done
     kind |-> "none",       \* the message that started the invocation
     result |-> "none",     \* what the listener's promise settled with ("pending" before)
     cvCaller |-> "none",   \* who awaits the running checkVersion: trigger, auto, download
     cvForce |-> FALSE,     \* argument of the latest checkVersion call
     cvOut |-> "none",      \* how the latest checkVersion call went
     fetches |-> 0,         \* release-metadata requests made by the latest checkVersion call
     locals |-> NoLocals,   \* {sha, releaseLink} read at line 94
     dlPath |-> "none",     \* where the download() executor is or how it ended
     info |-> Null,         \* the release of the transfer (const info, line 126)
     loaded |-> 0,          \* event.loaded of the latest progress event
     gtd |-> "none"]        \* getTagDataEvent: none, running, complete, error

----------------------------------------------------------------------------
(* World records *)

World ==
    [now |-> now, installed |-> installed, lastCheckData |-> lastCheckData,
     downloadStatus |-> downloadStatus, loadLock |-> loadLock, owner |-> owner,
     badge |-> badge, procs |-> procs]

Set(w) ==
    /\ now' = w.now
    /\ installed' = w.installed
    /\ lastCheckData' = w.lastCheckData
    /\ downloadStatus' = w.downloadStatus
    /\ loadLock' = w.loadLock
    /\ owner' = w.owner
    /\ badge' = w.badge
    /\ procs' = w.procs

\* {...base, ...data}
Spread(base, data) ==
    [f \in DOMAIN base |-> IF f \in DOMAIN data THEN data[f] ELSE base[f]]

badgeSet(w, text, color) == [w EXCEPT !.badge = <<text, color>>]

initDownloadStatus(w) == [w EXCEPT !.downloadStatus = defaultStatus]

pushDownloadStatus(w, data) ==
    [w EXCEPT !.downloadStatus = Spread(w.downloadStatus, data)]

----------------------------------------------------------------------------
(* Leaving a listener *)

\* The listener's promise settles with res; its locals go out of scope.
finishListener(w, p, res) ==
    [w EXCEPT !.procs[p].pc = "done",
              !.procs[p].result = res,
              !.procs[p].cvCaller = "none",
              !.procs[p].locals = NoLocals,
              !.procs[p].info = Null,
              !.procs[p].loaded = 0]

\* getTagDataEvent returned: the get-tag-data listener is done, the
\* auto-update listener goes on to "return true" (line 40).
endGetTagDataEvent(w, p) ==
    finishListener(w, p, IF w.procs[p].kind = "auto-update" THEN "true" ELSE "void")

\* catch (err) of getTagDataEvent, lines 66-69.
catchError(w, p, message) ==
    LET text == IF message # NoMessage THEN message ELSE MsgUpdateFailed
        w1 == pushDownloadStatus(w, [run |-> FALSE, error |-> TRUE, info |-> text])
    IN  endGetTagDataEvent([w1 EXCEPT !.procs[p].gtd = "error"], p)

----------------------------------------------------------------------------
(* checkVersion, lines 83-110 *)

\* withinRateLimit with the window closed at its end: "<" for "<=".
withinRateLimit_exclusive(time, lcd) ==
    /\ time - lcd.timestamp < RateLimitMs
    /\ lcd.githubRelease # Null

\* Lines 88-89: the rate limit of one request a minute.
withinRateLimit(time, lcd) ==
    /\ time - lcd.timestamp <= RateLimitMs
    /\ lcd.githubRelease # Null

\* returnsCached without the test of force.
returnsCached_ignoringForce(force, time, lcd) == withinRateLimit(time, lcd)

\* Lines 84-91: whether the call returns lastCheckData at line 90.
returnsCached(force, time, lcd) == ~force /\ withinRateLimit(time, lcd)

\* Lines 83-94, up to the first await.  cvOut = "cached" tells the caller
\* that the call returned lastCheckData (line 90); otherwise the call is
\* suspended on browser.storage.local.get.
checkVersion(w, p, force, caller) ==
    LET time == w.now
        w1 == [w EXCEPT !.procs[p].cvForce = force,
                        !.procs[p].cvCaller = caller,
                        !.procs[p].fetches = 0]
    IN  IF returnsCached(force, time, w1.lastCheckData)
        THEN [w1 EXCEPT !.procs[p].cvOut = "cached"]
        ELSE [w1 EXCEPT !.procs[p].cvOut = "running", !.procs[p].pc = "cv_storage"]

\* Line 98: info && info.target_commitish
hasCommit(info) ==
    /\ "target_commitish" \in DOMAIN info
    /\ info.target_commitish # ""

\* checkTimestamp leaving the constructor's timestamp 0 in the record.
checkTimestamp_zero(w) == 0

\* The timestamp line 107 publishes.
checkTimestamp(w) == w.now

\* Lines 101-108.
publishCheckData(w, p, info) ==
    [w EXCEPT !.lastCheckData =
        [old |-> w.procs[p].locals.sha,
         oldLink |-> w.procs[p].locals.releaseLink,
         new |-> info.target_commitish,
         newLink |-> info.html_url,
         githubRelease |-> info,
         timestamp |-> checkTimestamp(w)]]

----------------------------------------------------------------------------
(* download, lines 112-166 *)

\* assetUrl taking the first asset of the list, whatever its name.
assetUrl_first(assets) ==
    IF Len(assets) = 0 THEN "" ELSE assets[1].browser_download_url

\* Line 127-128: the url of the first asset named db.html.json.gz, or ''.
assetUrl(assets) ==
    LET found == {i \in 1..Len(assets) : assets[i].name = BundleName}
        first == CHOOSE i \in found : \A j \in found : i <= j
    IN  IF found = {} THEN "" ELSE assets[first].browser_download_url

\* Line 121: checkData && checkData.githubRelease && checkData.githubRelease.assets
hasAssets(checkData) ==
    /\ checkData # Null
    /\ checkData.githubRelease # Null
    /\ "assets" \in DOMAIN checkData.githubRelease

\* reject(...) followed by this.loadLock = false (lines 122-123, 130-131).
releaseLock(w) == [w EXCEPT !.loadLock = FALSE, !.owner = 0]

\* Lines 121-164: the executor after "await this.checkVersion()" resumed with
\* checkData.  A rejection is caught by the awaiting getTagDataEvent in a
\* microtask of the same task, after the executor has returned.
downloadAfterCheck(w, p, checkData) ==
    IF ~hasAssets(checkData)
    THEN catchError(
            releaseLock([w EXCEPT !.procs[p].dlPath = "noinfo"]),
            p, MsgNoVersionInfo)
    ELSE LET info == checkData.githubRelease
             url == assetUrl(info.assets)
         IN  IF url = ""
             THEN catchError(
                     releaseLock([w EXCEPT !.procs[p].dlPath = "nourl"]),
                     p, MsgNoDownloadUrl)
             ELSE LET w1 == [w EXCEPT !.procs[p].pc = "await_dl",
                                      !.procs[p].dlPath = "transfer",
                                      !.procs[p].cvCaller = "none",
                                      !.procs[p].locals = NoLocals,
                                      !.procs[p].info = info,
                                      !.procs[p].loaded = 0]
                      w2 == pushDownloadStatus(w1, [info |-> "0%", progress |-> 0])
                  IN  badgeSet(w2, "0", "#4A90E2")

\* returnFalse written like the other early exits of the executor, which
\* release the guard before they return.
returnFalse_unlocking(w, p) ==
    releaseLock([w EXCEPT !.procs[p].pc = "await_dl", !.procs[p].dlPath = "contended"])

\* Line 115: "return false" in the executor.  The promise download()
\* returned stays pending; nothing else is written.
returnFalse(w, p) ==
    [w EXCEPT !.procs[p].pc = "await_dl", !.procs[p].dlPath = "contended"]

\* lockHeld with the test of line 114 left out.
lockHeld_never(w) == FALSE

\* Line 114.
lockHeld(w) == w.loadLock

\* Lines 113-120: the executor up to its first await.  With the lock held it
\* returns false without calling resolve or reject (line 115).
download(w, p) ==
    IF lockHeld(w)
    THEN returnFalse(w, p)
    ELSE LET w1 == [w EXCEPT !.loadLock = TRUE, !.owner = p]
             w2 == badgeSet(w1, "", "#4A90E2")
             w3 == pushDownloadStatus(w2, [run |-> TRUE, info |-> InfoLoading])
             w4 == [w3 EXCEPT !.procs[p].dlPath = "running"]
             w5 == checkVersion(w4, p, FALSE, "download")
         IN  IF w5.procs[p].cvOut = "cached"
             THEN downloadAfterCheck(w5, p, w5.lastCheckData)
             ELSE w5

\* Lines 47-51, up to "await this.download()".
getTagDataEvent(w, p) ==
    download([initDownloadStatus(w) EXCEPT !.procs[p].gtd = "running"], p)

\* Lines 38-42 of the auto-update listener; version is null when the forced
\* check returned null, and reading version.new then throws a TypeError.
autoUpdateAfterCheck(w, p, version) ==
    IF version = Null
    THEN finishListener(w, p, "TypeError")
    ELSE IF version.new # "" /\ version.new # version.old
         THEN getTagDataEvent(w, p)
         ELSE finishListener(w, p, "false")

\* checkVersion returned ret to the code that awaits it.
checkVersionReturns(w, p, ret) ==
    CASE w.procs[p].cvCaller = "trigger" ->
            finishListener(w, p, IF ret = Null THEN "null" ELSE "data")
      [] w.procs[p].cvCaller = "auto" -> autoUpdateAfterCheck(w, p, ret)
      [] w.procs[p].cvCaller = "download" -> downloadAfterCheck(w, p, ret)

\* An await inside checkVersion threw err (line 94 or 96).  The listeners
\* reject with it.  Inside download() the throw ends the async executor of
\* "new Promise(async ...)": nothing calls resolve or reject and no line
\* after 120 runs.
checkVersionThrows(w, p, err) ==
    LET w1 == [w EXCEPT !.procs[p].cvOut = err]
    IN  IF w.procs[p].cvCaller = "download"
        THEN [w1 EXCEPT !.procs[p].pc = "await_dl",
                        !.procs[p].dlPath = "threw",
                        !.procs[p].cvCaller = "none",
                        !.procs[p].locals = NoLocals]
        ELSE finishListener(w1, p, err)

----------------------------------------------------------------------------
(* The remaining steps of getTagDataEvent *)

\* Lines 138-148 (xhr.onload), then line 52 in the resumed getTagDataEvent.
\* resolve() and the calls after it do not throw, so the catch of line 143
\* is not taken.
onload(w, p) ==
    LET w1 == [w EXCEPT !.procs[p].dlPath = "loaded"]
        w2 == pushDownloadStatus(w1, [info |-> InfoDownloaded, progress |-> 100])
        w3 == badgeSet(w2, "100", "#4A90E2")
        w4 == releaseLock(w3)
    IN  [w4 EXCEPT !.procs[p].pc = "db_update", !.procs[p].loaded = 0]

\* Lines 150-154 (xhr.onerror); the event e carries no message.
onerror(w, p) ==
    LET w1 == releaseLock(w)
        w2 == badgeSet(w1, "ERR", "#C80000")
        w3 == [w2 EXCEPT !.procs[p].dlPath = "neterr"]
    IN  catchError(w3, p, NoMessage)

\* Line 157: Math.floor((event.loaded / event.total) * 100)
percentOf(loaded, total) == (loaded * 100) \div total

\* Lines 155-161 (xhr.onprogress).  The invocation remembers event.loaded of
\* its length-computable events only: the others change nothing.
onprogress(w, p, loaded, lengthComputable) ==
    IF lengthComputable
    THEN LET percent == percentOf(loaded, TotalBytes)
             w1 == [w EXCEPT !.procs[p].loaded = loaded]
             w2 == pushDownloadStatus(w1,
                      [info |-> ToString(percent) \o "%", progress |-> percent])
         IN  badgeSet(w2, ToString(percent), "#4A90E2")
    ELSE w

\* tagDatabase.update(data.db, data.release.html_url) stores the bundle: the
\* installed identifiers become those of the downloaded release.
tagDatabaseUpdate(w, p) ==
    [w EXCEPT !.installed = [sha |-> w.procs[p].info.target_commitish,
                             releaseLink |-> w.procs[p].info.html_url]]

\* refreshOld building the record anew instead of spreading the current one.
refreshOld_fresh(w) ==
    [w EXCEPT !.lastCheckData =
        Spread(initialCheckData, [old |-> w.installed.sha,
                                  oldLink |-> w.installed.releaseLink])]

\* refreshOld stamping the refreshed record with the time of the update.
refreshOld_stamped(w) ==
    [w EXCEPT !.lastCheckData =
        Spread(w.lastCheckData, [old |-> w.installed.sha,
                                 oldLink |-> w.installed.releaseLink,
                                 timestamp |-> w.now])]

\* Lines 56-60.
refreshOld(w) ==
    [w EXCEPT !.lastCheckData =
        Spread(w.lastCheckData, [old |-> w.installed.sha,
                                 oldLink |-> w.installed.releaseLink])]

\* Lines 54-61, up to "await sleep(2500)".
updateSucceeded(w, p) ==
    LET w1 == badgeSet(w, "OK", "#00C801")
        w2 == pushDownloadStatus(w1, [run |-> TRUE, info |-> InfoUpdated,
                                      progress |-> 100, complete |-> TRUE])
        w3 == refreshOld(w2)
    IN  [w3 EXCEPT !.procs[p].pc = "sleep",
                   !.procs[p].gtd = "complete",
                   !.procs[p].info = Null]

\* stillComplete with the test of line 62 inverted.
stillComplete_never(w) == FALSE

\* Line 62: this.downloadStatus is the BehaviorSubject, not its value, and
\* its member "complete" is the method Subject.complete: always truthy.
stillComplete(w) == TRUE

\* Lines 62-65, after the sleep.
afterSleep(w, p) ==
    IF stillComplete(w)
    THEN endGetTagDataEvent(initDownloadStatus(badgeSet(w, "", "#4A90E2")), p)
    ELSE endGetTagDataEvent(w, p)

----------------------------------------------------------------------------
(* Actions *)

Init ==
    /\ now = ClockStart
    /\ installed = [sha |-> "v1", releaseLink |-> Html("v1")]
    /\ lastCheckData = initialCheckData
    /\ downloadStatus = defaultStatus
    /\ loadLock = FALSE
    /\ owner = 0
    /\ badge = <<"", "">>
    /\ procs = [p \in Procs |-> idleProc]

\* Invocations are numbered in the order in which their messages arrive.
CanStart(p) ==
    /\ procs[p].pc = "idle"
    /\ \A q \in Procs : q < p => procs[q].pc # "idle"

Started(w, p, k) == [w EXCEPT !.procs[p].kind = k, !.procs[p].result = "pending"]

\* Line 34: the get-tag-data listener.
GetTagData(p) ==
    /\ CanStart(p)
    /\ Set(getTagDataEvent(Started(World, p, "get-tag-data"), p))

\* Line 35: the check-version listener.
CheckVersion(p) ==
    /\ CanStart(p)
    /\ \E force \in BOOLEAN :
          LET w1 == checkVersion(Started(World, p, "check-version"), p, force, "trigger")
          IN  Set(IF w1.procs[p].cvOut = "cached"
                  THEN checkVersionReturns(w1, p, w1.lastCheckData)
                  ELSE w1)

\* Lines 36-37: the auto-update listener, up to its forced check's first await.
AutoUpdate(p) ==
    /\ CanStart(p)
    /\ Set(checkVersion(Started(World, p, "auto-update"), p, TRUE, "auto"))

\* Line 94 resumes with the stored identifiers; line 96 sends the request.
StorageReturns(p) ==
    /\ procs[p].pc = "cv_storage"
    /\ Set([World EXCEPT !.procs[p].pc = "cv_fetch",
                         !.procs[p].fetches = procs[p].fetches + 1,
                         !.procs[p].locals = installed])

\* Line 94 throws.
StorageFails(p) ==
    /\ procs[p].pc = "cv_storage"
    /\ Set(checkVersionThrows(World, p, "StorageError"))

\* Line 96 resumes with a body; lines 98-109.
FetchReturns(p) ==
    /\ procs[p].pc = "cv_fetch"
    /\ \E info \in Responses :
          IF hasCommit(info)
          THEN LET w1 == publishCheckData(World, p, info)
               IN  Set(checkVersionReturns([w1 EXCEPT !.procs[p].cvOut = "ok"], p,
                                           w1.lastCheckData))
          ELSE Set(checkVersionReturns([World EXCEPT !.procs[p].cvOut = "null"], p, Null))

\* Line 96 throws: the request failed or the body is not JSON.
FetchFails(p) ==
    /\ procs[p].pc = "cv_fetch"
    /\ Set(checkVersionThrows(World, p, "FetchError"))

Transferring(p) == procs[p].pc = "await_dl" /\ procs[p].dlPath = "transfer"

XhrProgress(p) ==
    /\ Transferring(p)
    /\ \E loaded \in procs[p].loaded..TotalBytes, lengthComputable \in BOOLEAN :
          Set(onprogress(World, p, loaded, lengthComputable))

XhrLoad(p) ==
    /\ Transferring(p)
    /\ Set(onload(World, p))

XhrError(p) ==
    /\ Transferring(p)
    /\ Set(onerror(World, p))

\* Line 52 resumes; lines 54-61.
UpdateReturns(p) ==
    /\ procs[p].pc = "db_update"
    /\ Set(updateSucceeded(tagDatabaseUpdate(World, p), p))

\* Line 52 throws an Error with a message.
UpdateFails(p) ==
    /\ procs[p].pc = "db_update"
    /\ Set(catchError(World, p, MsgDatabase))

\* Line 61 resumes: the timer of sleep(2500) fired.  The delay is not
\* measured on the model's clock, whose steps are a rate-limit window long:
\* any number of other steps may come before the timer.
SleepReturns(p) ==
    /\ procs[p].pc = "sleep"
    /\ Set(afterSleep(World, p))

\* Time passes.  The code reads the clock only to compare it with the
\* timestamp of the last successful check and to record that timestamp, so
\* runs that differ in the time of the first successful check are
\* translations of one another: the clock is let run from that check on, and
\* as long as an invocation can still read it (one not started yet or one
\* inside checkVersion).
Tick ==
    /\ lastCheckData.timestamp # 0
    /\ \E p \in Procs : procs[p].pc \in {"idle", "cv_storage", "cv_fetch"}
    /\ now + TickMs <= MaxClock
    /\ now' = now + TickMs
    /\ UNCHANGED <<installed, lastCheckData, downloadStatus, loadLock, owner, badge, procs>>

Resume(p) ==
    \/ StorageReturns(p)
    \/ StorageFails(p)
    \/ FetchReturns(p)
    \/ FetchFails(p)
    \/ XhrProgress(p)
    \/ XhrLoad(p)
    \/ XhrError(p)
    \/ UpdateReturns(p)
    \/ UpdateFails(p)
    \/ SleepReturns(p)

Next ==
    \/ \E p \in Procs : GetTagData(p)
    \/ \E p \in Procs : CheckVersion(p)
    \/ \E p \in Procs : AutoUpdate(p)
    \/ \E p \in Procs : Resume(p)
    \/ Tick

Spec == Init /\ [][Next]_vars

\* The listeners resume whenever what they await answers: every request,
\* storage read, database update and timer eventually returns or fails.
FairSpec == Spec /\ \A p \in Procs : WF_vars(Resume(p))

----------------------------------------------------------------------------
(* Derived state *)

\* State of the promise download() returned to invocation p.
dlPromise(p) ==
    CASE procs[p].dlPath = "none" -> "none"
      [] procs[p].dlPath \in {"running", "contended", "threw", "transfer"} -> "pending"
      [] procs[p].dlPath = "loaded" -> "resolved"
      [] procs[p].dlPath \in {"noinfo", "nourl", "neterr"} -> "rejected"

\* The executor of p's download() is past the guard and has not ended.
HoldsGuard(p) == procs[p].dlPath \in {"running", "transfer"}

\* p's download() acquired the guard and has ended.
EndedPaths == {"loaded", "noinfo", "nourl", "neterr", "threw"}

\* The download or the database update of p's getTagDataEvent failed.
UpdateFailed(p) ==
    \/ procs[p].dlPath \in {"noinfo", "nourl", "neterr", "threw"}
    \/ procs[p].dlPath = "loaded" /\ procs[p].gtd = "error"

----------------------------------------------------------------------------
(* Claims *)

\* C1: every download() call eventually settles its caller: with the guard
\* held it gets the running download's result or fails at once, and no call
\* stays pending forever.
C1_DownloadSettles ==
    \A p \in Procs :
        (dlPromise(p) = "pending") ~> (dlPromise(p) \in {"resolved", "rejected"})

\* C2: at most one invocation is past the guard of download() at any time,
\* it is the one that set loadLock, and so at most one transfer is in flight.
C2_SingleFlight ==
    /\ \A p, q \in Procs : HoldsGuard(p) /\ HoldsGuard(q) => p = q
    /\ \A p \in Procs : HoldsGuard(p) => loadLock /\ owner = p
    /\ Cardinality({p \in Procs : Transferring(p)}) <= 1

\* C2 witness: a transfer is in flight and a second download() found the
\* guard held.
C2_Witness ==
    \E p, q \in Procs :
        /\ Transferring(p)
        /\ procs[q].dlPath = "contended"

\* C3: a download() that acquired the guard and ended, on whichever path,
\* no longer holds it.
C3_GuardReleasedOnExit ==
    \A p \in Procs : procs[p].dlPath \in EndedPaths => owner # p

\* C4: when the grace period of p ends, the status is reset to idle and the
\* badge cleared only if the status is still complete; otherwise both are
\* left as the newer operation published them.
C4_ResetOnlyIfStillComplete ==
    [][\A p \in Procs :
          procs[p].pc = "sleep" /\ procs'[p].pc # "sleep" =>
              IF downloadStatus.complete
              THEN downloadStatus' = defaultStatus /\ badge' = <<"", "#4A90E2">>
              ELSE downloadStatus' = downloadStatus /\ badge' = badge]_vars

\* C5: whenever the download or the database update of getTagDataEvent fails,
\* getTagDataEvent eventually publishes a status with error true and run false.
C5_FailureSurfaces ==
    \A p \in Procs : UpdateFailed(p) ~> (procs[p].gtd = "error")

\* C6: complete and error are never both true in downloadStatus.
C6_CompleteXorError == ~(downloadStatus.complete /\ downloadStatus.error)

\* Steps of checkVersion, told from the states before and after them.

\* p's listener starts and makes a non-forced checkVersion call (the
\* check-version listener, or download() with the guard free).
NonForcedCall(p) ==
    /\ procs[p].pc = "idle"
    /\ procs'[p].cvOut # "none"
    /\ ~procs'[p].cvForce

\* The auto-update listener's forced check returned and its getTagDataEvent
\* made the non-forced call of download().
NonForcedCallAfterForced(p) ==
    /\ procs[p].cvCaller = "auto"
    /\ procs[p].pc = "cv_fetch"
    /\ procs'[p].dlPath \notin {"none", "contended"}

\* p's listener starts with a forced checkVersion call.
ForcedCall(p) ==
    /\ procs[p].pc = "idle"
    /\ procs'[p].cvForce

\* The call returned lastCheckData at line 90: no request, nothing published.
ReturnedCached(p) ==
    /\ procs'[p].cvOut = "cached"
    /\ procs'[p].fetches = 0
    /\ procs'[p].pc \notin {"cv_storage", "cv_fetch"}
    /\ lastCheckData' = lastCheckData
    /\ procs'[p].kind = "check-version" => procs'[p].result = "data"

\* The call went on to line 94 and awaits the installed identifiers.
ReadsInstalled(p) ==
    /\ procs'[p].cvOut = "running"
    /\ procs'[p].pc = "cv_storage"
    /\ lastCheckData' = lastCheckData

\* p's checkVersion call ends in this step.
CheckEnds(p) ==
    \/ procs[p].pc = "cv_storage" /\ procs'[p].pc \notin {"cv_storage", "cv_fetch"}
    \/ procs[p].pc = "cv_fetch" /\ procs'[p].pc # "cv_fetch"

\* p's checkVersion call ends in this step after a fetch that answered with
\* a version: lines 101-109 ran.
CheckSucceeds(p) ==
    /\ procs[p].pc = "cv_fetch"
    /\ procs'[p].pc # "cv_fetch"
    /\ procs'[p].cvOut \in {"ok", "cached"}

\* C7 as claimed: a non-forced checkVersion returns the cached record without
\* a request exactly when less than 60,000 ms passed since the last successful
\* check and the release record is present; otherwise it reads the installed
\* version and fetches.
C7_CachedWithinWindow ==
    [][\A p \in Procs :
          /\ NonForcedCall(p) =>
                IF /\ now - lastCheckData.timestamp < RateLimitMs
                   /\ lastCheckData.githubRelease # Null
                THEN ReturnedCached(p)
                ELSE ReadsInstalled(p)
          /\ NonForcedCallAfterForced(p) =>
                /\ now' - lastCheckData'.timestamp < RateLimitMs
                /\ procs'[p].cvOut = "cached"
                /\ procs'[p].fetches = 0]_vars

\* C7 amended: a non-forced checkVersion returns the cached record without a
\* request exactly when at most 60,000 ms passed since the last successful
\* check (60,000 ms included) and the release record is present; otherwise it
\* reads the installed version and fetches.
C7_CachedUpToWindow ==
    [][\A p \in Procs :
          /\ NonForcedCall(p) =>
                IF /\ now - lastCheckData.timestamp <= RateLimitMs
                   /\ lastCheckData.githubRelease # Null
                THEN ReturnedCached(p)
                ELSE ReadsInstalled(p)
          /\ NonForcedCallAfterForced(p) =>
                /\ now' - lastCheckData'.timestamp <= RateLimitMs
                /\ procs'[p].cvOut = "cached"
                /\ procs'[p].fetches = 0]_vars

\* C7 witness: a check-version call got the cached record exactly 60,000 ms
\* after the last successful check.
C7_Witness ==
    \E p \in Procs :
        /\ procs[p].kind = "check-version"
        /\ procs[p].cvOut = "cached"
        /\ procs[p].result = "data"
        /\ now - lastCheckData.timestamp = RateLimitMs

\* C8: a checkVersion whose fetched body lacks target_commitish ends in the
\* failure VersionInfoUnavailable at its caller, and lastCheckData is left
\* unchanged.
C8_MissingVersionFails ==
    /\ [](\A p \in Procs :
            procs[p].cvOut = "null" =>
                \/ procs[p].result = "VersionInfoUnavailable"
                \/ procs[p].dlPath = "noinfo")
    /\ [][\A p \in Procs :
            procs[p].pc = "cv_fetch" /\ procs'[p].cvOut = "null" =>
                lastCheckData' = lastCheckData]_vars

\* C9: lastCheckData.timestamp changes only in a step in which a checkVersion
\* call ends after a successful fetch, and then to the clock's value.
C9_TimestampOnlyOnSuccess ==
    [][lastCheckData'.timestamp # lastCheckData.timestamp =>
          /\ \E p \in Procs : CheckSucceeds(p)
          /\ lastCheckData'.timestamp = now]_vars

\* C9 witness: an update completed whose download used the cached record, and
\* the timestamp is still the older time of the last successful check.
C9_Witness ==
    \E p \in Procs :
        /\ procs[p].gtd = "complete"
        /\ procs[p].cvOut = "cached"
        /\ lastCheckData.old = installed.sha
        /\ lastCheckData.timestamp > 0
        /\ lastCheckData.timestamp < now

\* C10 as claimed: a forced check never returns the cached record, has made
\* exactly one release-metadata request when it ends, and on success
\* publishes the clock's value as timestamp, not smaller than the previous.
C10_ForcedOneRequest ==
    [][\A p \in Procs :
          /\ ForcedCall(p) => ReadsInstalled(p)
          /\ procs[p].cvForce /\ CheckEnds(p) => procs[p].fetches = 1
          /\ procs[p].cvForce /\ CheckSucceeds(p) =>
                /\ lastCheckData'.timestamp = now'
                /\ lastCheckData'.timestamp >= lastCheckData.timestamp]_vars

\* C10 amended: a forced check never returns the cached record; when it ends
\* it has made exactly one release-metadata request, or none if the read of
\* the installed identifiers failed; on success it publishes the clock's
\* value as timestamp, not smaller than the previous.
C10_ForcedAtMostOneRequest ==
    [][\A p \in Procs :
          /\ ForcedCall(p) => ReadsInstalled(p)
          /\ procs[p].cvForce /\ CheckEnds(p) =>
                procs[p].fetches = IF procs[p].pc = "cv_storage" THEN 0 ELSE 1
          /\ procs[p].cvForce /\ CheckSucceeds(p) =>
                /\ lastCheckData'.timestamp = now'
                /\ lastCheckData'.timestamp >= lastCheckData.timestamp]_vars

\* C10 witness: a forced check-version succeeded with one request while the
\* record of an earlier check was still within the rate limit.
C10_Witness ==
    \E p \in Procs :
        /\ procs[p].kind = "check-version"
        /\ procs[p].cvForce
        /\ procs[p].cvOut = "ok"
        /\ procs[p].fetches = 1
        /\ lastCheckData.timestamp = now
        /\ now > ClockStart
        /\ now - ClockStart <= RateLimitMs

\* p's download() goes past "await this.checkVersion()" in this step.
DownloadChecked(p) ==
    /\ procs[p].dlPath \in {"none", "running"}
    /\ procs'[p].dlPath \in {"noinfo", "nourl", "transfer"}

\* The checkData that call of checkVersion returned.
CheckDataAfter(p) == IF procs'[p].cvOut = "null" THEN Null ELSE lastCheckData'

\* C11: when the release's asset list has no entry named db.html.json.gz, or
\* that entry's url is empty, download() fails with the no-download-url error
\* without starting a transfer, the guard is free afterwards and the status
\* getTagDataEvent publishes has error true.
C11_MissingAssetFails ==
    [][\A p \in Procs :
          /\ DownloadChecked(p)
          /\ hasAssets(CheckDataAfter(p))
          /\ \A i \in 1..Len(lastCheckData'.githubRelease.assets) :
                \/ lastCheckData'.githubRelease.assets[i].name # BundleName
                \/ lastCheckData'.githubRelease.assets[i].browser_download_url = ""
          => /\ procs'[p].dlPath = "nourl"
             /\ procs'[p].info = Null
             /\ ~loadLock' /\ owner' = 0
             /\ procs'[p].gtd = "error"
             /\ downloadStatus'.error
             /\ ~downloadStatus'.run
             /\ downloadStatus'.info = MsgNoDownloadUrl]_vars

\* C11 witness: a download failed for want of the bundle's url and a later
\* download() acquired the guard.
C11_Witness ==
    \E p, q \in Procs :
        /\ p < q
        /\ procs[p].dlPath = "nourl"
        /\ procs[p].gtd = "error"
        /\ HoldsGuard(q)

\* The timer of p's "await sleep(2500)" (line 61) fires in this step.
TimerFires(p) == procs[p].pc = "sleep" /\ procs'[p].pc # "sleep"

\* C12: after a getTagDataEvent whose download and database update both
\* succeeded, DownloadStatus is back at the default (idle) value, and the
\* badge cleared, once the timer of line 61 fires: lines 62-65 reset it
\* whether or not another operation started during the 2500 ms.
C12_IdleAfterGracePeriod ==
    /\ [](\A p \in Procs :
             procs[p].pc = "sleep" => procs[p].gtd = "complete" /\ procs[p].dlPath = "loaded")
    /\ [][\A p \in Procs :
             TimerFires(p) =>
                 /\ procs'[p].pc = "done"
                 /\ downloadStatus' = defaultStatus
                 /\ badge' = <<"", "#4A90E2">>]_vars

\* C12 witness: a completed update whose timer has fired, back at idle.
C12_Witness ==
    \E p \in Procs :
        /\ procs[p].pc = "done"
        /\ procs[p].gtd = "complete"
        /\ procs[p].dlPath = "loaded"
        /\ downloadStatus = defaultStatus
        /\ badge = <<"", "#4A90E2">>

\* The forced check of p's auto-update listener (line 37) returns a record in
\* this step.
AutoCheckReturns(p) ==
    /\ procs[p].kind = "auto-update"
    /\ procs[p].cvCaller = "auto"
    /\ procs[p].pc = "cv_fetch"
    /\ procs'[p].cvOut = "ok"

\* Line 38 on the record that check returned.
NewerVersion(lcd) == lcd.new # "" /\ lcd.new # lcd.old

\* The decision of lines 38-42 alone: a newer version starts getTagDataEvent
\* and can only return true; otherwise the listener returns false at once
\* and leaves the guard and DownloadStatus alone.
AutoUpdateDecides ==
    \A p \in Procs :
        AutoCheckReturns(p) =>
            IF NewerVersion(lastCheckData')
            THEN /\ procs'[p].gtd # "none"
                 /\ procs'[p].result \in {"pending", "true"}
            ELSE /\ procs'[p].result = "false"
                 /\ procs'[p].pc = "done"
                 /\ procs'[p].gtd = "none"
                 /\ procs'[p].dlPath = "none"
                 /\ loadLock' = loadLock /\ owner' = owner
                 /\ downloadStatus' = downloadStatus
                 /\ badge' = badge

\* C13: the auto-update listener returns true, having run getTagDataEvent to
\* its end, exactly when its forced check yields a non-empty new identifier
\* different from old; with new = old or an empty new it returns false,
\* starts no download, does not take the guard and leaves DownloadStatus alone.
C13_AutoUpdateReturns ==
    /\ [][AutoUpdateDecides]_vars
    /\ [](\A p \in Procs :
             procs[p].result = "true" => procs[p].gtd \in {"complete", "error"})
    /\ \A p \in Procs :
          (procs[p].kind = "auto-update" /\ procs[p].gtd # "none")
              ~> (procs[p].result = "true")

\* A trigger begins a new operation in this step: getTagDataEvent is entered,
\* by the get-tag-data listener or by an auto-update that found a newer version.
OperationBegins == \E p \in Procs : procs[p].gtd = "none" /\ procs'[p].gtd # "none"

\* C14: once a status with error true is published, the status keeps error
\* true until a trigger begins a new operation; no timer and no continuation
\* of an earlier operation clears it.
C14_ErrorIsTerminal ==
    [][downloadStatus.error => downloadStatus'.error \/ OperationBegins]_vars

\* C15: in every reachable state in which a download holds the guard,
\* DownloadStatus.run is true.
C15_RunningWhileGuardHeld ==
    \A p \in Procs : HoldsGuard(p) => downloadStatus.run

\* A step inside one download: the same invocation holds the guard before
\* and after it.
WithinDownload == \E p \in Procs : HoldsGuard(p) /\ procs'[p].dlPath \in {"running", "transfer"}

\* C16: from the acquisition of the guard to its release, the progress values
\* published in DownloadStatus never decrease and lie in 0..100.
C16_ProgressMonotone ==
    /\ []((\E p \in Procs : HoldsGuard(p)) => downloadStatus.progress \in 0..100)
    /\ [][WithinDownload => downloadStatus'.progress >= downloadStatus.progress]_vars

\* p's "await tagDatabase.update(...)" (line 52) ends in this step.
UpdateEnds(p) == procs[p].pc = "db_update" /\ procs'[p].pc # "db_update"

\* C17: a status with complete true is published only by an operation whose
\* download succeeded and whose tagDatabase.update then succeeded; an
\* operation whose update fails publishes no status with complete true and
\* ends with a status that has error true.
C17_CompleteOnlyAfterUpdate ==
    /\ [](\A p \in Procs : procs[p].gtd = "complete" => procs[p].dlPath = "loaded")
    /\ [][/\ ~downloadStatus.complete /\ downloadStatus'.complete
             => \E p \in Procs : UpdateEnds(p) /\ procs'[p].gtd = "complete"
          /\ \A p \in Procs :
                UpdateEnds(p) /\ procs'[p].gtd = "error"
                    => /\ procs'[p].pc = "done"
                       /\ downloadStatus'.error
                       /\ ~downloadStatus'.complete]_vars

\* The success step of p's getTagDataEvent (lines 54-60).
SuccessStep(p) == procs[p].gtd # "complete" /\ procs'[p].gtd = "complete"

\* C18: the success step of getTagDataEvent sets old and oldLink of
\* lastCheckData to the tag database's current identifiers and leaves new,
\* newLink, timestamp and githubRelease as they were just before.
C18_SuccessRefreshesOld ==
    [][\A p \in Procs :
          SuccessStep(p) =>
              /\ lastCheckData'.old = installed'.sha
              /\ lastCheckData'.oldLink = installed'.releaseLink
              /\ lastCheckData'.new = lastCheckData.new
              /\ lastCheckData'.newLink = lastCheckData.newLink
              /\ lastCheckData'.timestamp = lastCheckData.timestamp
              /\ lastCheckData'.githubRelease = lastCheckData.githubRelease]_vars

\* C18 witness: an update has completed on a checked release; old now names
\* the stored release and the rest of the record is that of the check.
C18_Witness ==
    \E p \in Procs :
        /\ procs[p].gtd = "complete"
        /\ procs[p].pc = "sleep"
        /\ lastCheckData.old = installed.sha
        /\ lastCheckData.old = "v2"
        /\ lastCheckData.githubRelease # Null
        /\ lastCheckData.timestamp > 0

\* C19: once lastCheckData holds a githubRelease it holds one ever after, and
\* whenever it holds one, new is non-empty and timestamp is above 0.
C19_ReleaseStays ==
    /\ [](lastCheckData.githubRelease # Null
             => lastCheckData.new # "" /\ lastCheckData.timestamp > 0)
    /\ [][lastCheckData.githubRelease # Null
             => lastCheckData'.githubRelease # Null]_vars

\* C19 witness: a check published a release, a later listener's check got a
\* body without target_commitish, and the release is still there.
C19_Witness ==
    \E p, q \in Procs :
        /\ q < p
        /\ procs[q].cvOut = "ok"
        /\ procs[p].cvOut = "null"
        /\ lastCheckData.githubRelease # Null
        /\ lastCheckData.new = "v2"

\* The state in which listener p, not yet started, has entered
\* getTagDataEvent and is about to call download() (lines 49-51).
BeforeDownload(p) ==
    [initDownloadStatus(Started(World, p, "get-tag-data"))
        EXCEPT !.procs[p].gtd = "running"]

\* C20: a download() that finds the guard held changes nothing: the guard
\* stays with its owner, no DownloadStatus is published, the badge and
\* lastCheckData are not touched, no version check and no request is started.
\* Only the caller's own position changes: it awaits a promise left pending.
C20_ContendedDownloadIsNoOp ==
    \A p \in Procs :
        loadLock /\ procs[p].pc = "idle" =>
            LET w0 == BeforeDownload(p)
                w1 == download(w0, p)
            IN  /\ w1.procs[p].dlPath = "contended"
                /\ w1.procs[p].pc = "await_dl"
                /\ w1 = [w0 EXCEPT !.procs[p].pc = "await_dl",
                                   !.procs[p].dlPath = "contended"]

\* C20 witness: a getTagDataEvent whose download() found the guard held by
\* another invocation, which still holds it.
C20_Witness ==
    \E p, q \in Procs :
        /\ p # q
        /\ loadLock /\ owner = p
        /\ procs[q].dlPath = "contended"
        /\ procs[q].cvOut = "none"
        /\ procs[q].fetches = 0
        /\ downloadStatus = defaultStatus

====
